---- MODULE Spec2Model ----
(***************************************************************************)
(* Model of the Asana seed-data generator: the temporal engine of          *)
(* src/utils/dates.py and the stage pipeline of src/main.py.               *)
(*                                                                         *)
(* Time is counted in whole hours from the midnight of a Monday (hour 0);  *)
(* a date is a day number (hour \div 24) and Weekday(d) = d % 7 with       *)
(* 0 = Monday .. 6 = Sunday, as datetime.weekday() numbers the days.       *)
(* Probabilities are in per mille; a draw of random.random() is an integer *)
(* in 0..999.                                                              *)
(***************************************************************************)
EXTENDS Integers, Sequences, FiniteSets, TLC

VARIABLES
    fn,      \* which function of the temporal engine was called ("idle" before)
    args,    \* its arguments
    draws,   \* the random draws the call consumed
    ret,     \* its return value
    pc,               \* main(): the step about to run, "complete" or "failed"
    raised,           \* the stage whose exception reached main(), else "none"
    exit_status,      \* the status of sys.exit, 0 while none was called
    finished,         \* the stages of generate_all that returned, in order
    inserted,         \* the tables of the db.insert_many calls that succeeded
    NUM_EMPLOYEES,    \* config.NUM_EMPLOYEES, read from the environment
    organization,     \* self.organization: its organization_id, 0 for None
    teams,            \* self.teams
    users,            \* self.users
    team_memberships, \* self.team_memberships
    custom_fields,    \* self.custom_fields: the names of the definitions
    tags,             \* self.tags: the names of the tags
    projects,         \* self.projects
    sections,         \* self.sections
    tasks,            \* self.tasks
    comments,         \* the rows of the comments table: the task_id of each
    db_tasks,         \* the rows of the tasks table, as inserted
    loop,             \* the position of the running stage's loops
    used_emails,      \* NameGenerator.used_emails
    name_data,        \* the addresses the NameGenerator returned, in call order
    client,           \* LLMGenerator.client: whether it is set
    call_count,       \* LLMGenerator.call_count
    total_tokens,     \* LLMGenerator.total_tokens
    generate_calls    \* how each call of LLMGenerator.generate went, in call order

fnVars == <<fn, args, draws, ret>>
runVars == <<pc, raised, exit_status, finished, inserted>>
entityVars == <<NUM_EMPLOYEES, organization, teams, users, team_memberships, custom_fields, tags, projects, sections, tasks, comments, db_tasks, loop>>
nameVars == <<used_emails, name_data>>
llmVars == <<client, call_count, total_tokens, generate_calls>>
vars == <<fnVars, runVars, entityVars, nameVars, llmVars>>

----------------------------------------------------------------------------
(* Values *)

\* Python's None for a date or a datetime (every real time is >= 0)
NoneT == -1

HoursPerDay == 24

\* datetime.date(): the day a datetime falls on
DateOf(t) == t \div HoursPerDay

\* datetime.combine(d, datetime.min.time()): midnight of a date
Midnight(d) == d * HoursPerDay

\* date.weekday(): 0 = Monday .. 6 = Sunday
Weekday(d) == d % 7

Min(a, b) == IF a <= b THEN a ELSE b
Max(a, b) == IF a >= b THEN a ELSE b

\* the elements of a sequence
Range(seq) == {seq[i] : i \in 1..Len(seq)}

----------------------------------------------------------------------------
(* Configuration (src/config.py) *)

\* END_DATE = 2026-01-07 00:00, a Wednesday; day 212 is a Wednesday
END_DAY == 212
END_DATE == Midnight(END_DAY)

\* START_DATE = END_DATE - 180 days (2025-07-11, a Friday)
SIMULATION_DAYS == 180
START_DATE == END_DATE - SIMULATION_DAYS * HoursPerDay

\* DUE_DATE_DISTRIBUTION, in insertion order, probabilities in per mille
DUE_DATE_DISTRIBUTION ==
    << <<"within_1_week", 250>>, <<"within_1_month", 400>>,
       <<"within_3_months", 200>>, <<"no_due_date", 100>>,
       <<"overdue", 50>> >>

----------------------------------------------------------------------------
(* src/utils/dates.py *)

\* avoid_weekend: skip is the outcome of `random.random() > probability`
avoid_weekend(target_date, skip) ==
    IF skip THEN target_date
    ELSE IF Weekday(target_date) = 5 THEN target_date + 2
    ELSE IF Weekday(target_date) = 6 THEN target_date + 1
    ELSE target_date

RECURSIVE Cumulative(_, _)
\* the value of `cumulative` after the first k buckets of the walk
Cumulative(distribution, k) ==
    IF k = 0 THEN 0 ELSE Cumulative(distribution, k - 1) + distribution[k][2]

\* the bucket walk of generate_due_date: the index of the first bucket with
\* rand <= cumulative, 0 when the loop ends without selecting one
SelectedBucket(distribution, rand) ==
    LET hits == {k \in 1..Len(distribution) : rand <= Cumulative(distribution, k)}
    IN IF hits = {} THEN 0 ELSE CHOOSE k \in hits : \A j \in hits : k <= j

\* the day offsets random.randint can return for a bucket
BucketDays(bucket) ==
    CASE bucket = "within_1_week" -> 1..7
      [] bucket = "within_1_month" -> 8..30
      [] bucket = "within_3_months" -> 31..90
      [] bucket = "overdue" -> {-k : k \in 1..30}
      [] bucket = "no_due_date" -> {0}
      [] OTHER -> 7..30

\* generate_due_date with its draws made explicit: rand selects the bucket,
\* days is the bucket's offset, clamp the draw of randint(1, 7), skip the
\* draw of avoid_weekend
generate_due_date(created_at, distribution, now, rand, days, clamp, skip) ==
    LET k == SelectedBucket(distribution, rand) IN
    IF k = 0 THEN DateOf(created_at + 14 * HoursPerDay)
    ELSE IF distribution[k][1] = "no_due_date" THEN NoneT
    ELSE LET due0 == created_at + days * HoursPerDay
             due == IF DateOf(due0) > DateOf(now)
                    THEN now - clamp * HoursPerDay ELSE due0
         IN avoid_weekend(DateOf(due), skip)

\* whether generate_due_date consumes the clamp draw
DueClamped(created_at, distribution, now, rand, days) ==
    LET k == SelectedBucket(distribution, rand) IN
    /\ k # 0
    /\ distribution[k][1] # "no_due_date"
    /\ DateOf(created_at + days * HoursPerDay) > DateOf(now)

\* generate_completion_time with its draws made explicit: elapsed is the
\* clipped log-normal offset in hours (24..336), clampH randint(1, 48),
\* cluster the outcome of `random.random() < 0.6`, offset the hours of
\* uniform(-2, 1) days, reclampH randint(2, 48)
generate_completion_time(created_at, due_date, now, elapsed, clampH, cluster, offset, reclampH) ==
    LET c0 == created_at + elapsed
        c1 == IF c0 > now THEN now - clampH ELSE c0
    IN IF due_date # NoneT /\ cluster /\ Midnight(due_date) < now
       THEN LET c2 == Midnight(due_date) + offset
            IN IF c2 < created_at THEN created_at + reclampH ELSE c2
       ELSE c1

\* generate_modified_at: point is the draw of random_datetime_between
generate_modified_at(created_at, completed_at, now, point) ==
    IF completed_at # NoneT THEN completed_at
    ELSE IF (now - created_at) \div HoursPerDay > 1 THEN point
    ELSE created_at

----------------------------------------------------------------------------
(* The state of a process in which main() has not been called *)

NoStages ==
    /\ pc = "idle"
    /\ raised = "none"
    /\ exit_status = 0
    /\ finished = <<>>
    /\ inserted = <<>>
    /\ NUM_EMPLOYEES = 0
    /\ organization = 0
    /\ teams = <<>>
    /\ users = <<>>
    /\ team_memberships = <<>>
    /\ custom_fields = <<>>
    /\ tags = <<>>
    /\ projects = <<>>
    /\ sections = <<>>
    /\ tasks = <<>>
    /\ comments = <<>>
    /\ db_tasks = <<>>
    /\ loop = [i |-> 0, n |-> 0]
    /\ used_emails = {}
    /\ name_data = <<>>

\* an LLMGenerator without a client, on which generate was not called
NoGenerator ==
    /\ client = FALSE
    /\ call_count = 0
    /\ total_tokens = 0
    /\ generate_calls = <<>>

NoRun == NoStages /\ NoGenerator

----------------------------------------------------------------------------
(* Calls of the temporal engine on enumerated inputs *)

\* how many days before `now` an enumerated creation time may lie
MaxAgeDays == 9

\* the hours of the day of the enumerated creation times
CreatedHours == {9, 18}

\* a distribution whose mass is below 1 and that names a bucket the code
\* does not know (the `else` branch and the default return)
PARTIAL_DISTRIBUTION == << <<"within_1_week", 250>>, <<"next_sprint", 400>> >>

\* a distribution whose mass is below 1 and whose last bucket is `overdue`
SHORT_DISTRIBUTION == << <<"within_1_week", 250>>, <<"overdue", 50>> >>

Distributions == {DUE_DATE_DISTRIBUTION, PARTIAL_DISTRIBUTION, SHORT_DISTRIBUTION}

\* draws of random.random() on both sides of every bucket boundary, and the
\* draws 0.10 and 0.50
RandDraws == {0, 100, 250, 251, 300, 301, 500, 650, 651, 850, 851, 950, 951, 999}

\* the creation times at most MaxAgeDays days before now, none after now
CreatedBefore(now) ==
    {t \in {Midnight(d) + h : d \in (DateOf(now) - MaxAgeDays)..DateOf(now), h \in CreatedHours} : t <= now}

InitDue ==
    /\ NoRun
    /\ fn = "idle"
    /\ \E nowDay \in END_DAY..(END_DAY + 6), dist \in Distributions :
         \E created_at \in CreatedBefore(Midnight(nowDay)) :
            args = [created_at |-> created_at, distribution |-> dist, now |-> Midnight(nowDay)]
    /\ draws = [rand |-> 0, days |-> 0, clamp |-> 0, skip |-> FALSE]
    /\ ret = NoneT

\* one call generate_due_date(created_at, distribution, now)
CallDueDate ==
    /\ fn = "idle"
    /\ "distribution" \in DOMAIN args
    /\ \E rand \in RandDraws, skip \in BOOLEAN :
         LET k == SelectedBucket(args.distribution, rand)
             bucket == IF k = 0 THEN "none" ELSE args.distribution[k][1]
         IN \E days \in (IF k = 0 THEN {0} ELSE BucketDays(bucket)) :
            \E clamp \in (IF DueClamped(args.created_at, args.distribution, args.now, rand, days) THEN 1..7 ELSE {0}) :
               /\ draws' = [rand |-> rand, days |-> days, clamp |-> clamp, skip |-> skip]
               /\ ret' = generate_due_date(args.created_at, args.distribution, args.now, rand, days, clamp, skip)
    /\ fn' = "generate_due_date"
    /\ UNCHANGED <<args, runVars, entityVars, nameVars, llmVars>>

SpecDue == InitDue /\ [][CallDueDate]_vars

\* the bucket a finished generate_due_date call selected ("none": no bucket)
DueBucket ==
    LET k == SelectedBucket(args.distribution, draws.rand)
    IN IF k = 0 THEN "none" ELSE args.distribution[k][1]

\* the draws of the clipped log-normal offset, in hours (1, 4.5 and 14 days)
ElapsedDraws == {24, 108, 336}

\* draws of randint(1, 48), of uniform(-2, 1) days and of randint(2, 48)
ClampHourDraws == {1, 24, 48}
OffsetDraws == {-48, -12, 24}
ReclampHourDraws == {2, 48}

\* how many days before the creation date an enumerated due date may lie
MaxDueBack == 3

\* the due dates generate_due_date can hand over: none, or a date from
\* MaxDueBack days before the creation date up to the day after now
DueDatesFor(created_at, now) ==
    {NoneT} \cup ((DateOf(created_at) - MaxDueBack)..(DateOf(now) + 1))

InitCompletion ==
    /\ NoRun
    /\ fn = "idle"
    /\ \E created_at \in CreatedBefore(END_DATE) :
         \E due_date \in DueDatesFor(created_at, END_DATE) :
            args = [created_at |-> created_at, due_date |-> due_date, now |-> END_DATE]
    /\ draws = [elapsed |-> 0, clampH |-> 0, cluster |-> FALSE, offset |-> 0, reclampH |-> 0]
    /\ ret = NoneT

\* one call generate_completion_time(created_at, due_date, now)
CallCompletionTime ==
    /\ fn = "idle"
    /\ "due_date" \in DOMAIN args
    /\ \E elapsed \in ElapsedDraws, clampH \in ClampHourDraws, cluster \in BOOLEAN, offset \in OffsetDraws, reclampH \in ReclampHourDraws :
         /\ draws' = [elapsed |-> elapsed, clampH |-> clampH, cluster |-> cluster, offset |-> offset, reclampH |-> reclampH]
         /\ ret' = generate_completion_time(args.created_at, args.due_date, args.now, elapsed, clampH, cluster, offset, reclampH)
    /\ fn' = "generate_completion_time"
    /\ UNCHANGED <<args, runVars, entityVars, nameVars, llmVars>>

SpecCompletion == InitCompletion /\ [][CallCompletionTime]_vars

----------------------------------------------------------------------------
(* Scaled configuration of a run.  The department table, the team-size     *)
(* ranges and the per-parent counts are scaled down from src/config.py and *)
(* src/main.py so that runs stay enumerable; their structure is kept.      *)

\* TEAM_DISTRIBUTION: department -> share of the employees, in per mille,
\* in insertion order (config.py has eight departments, 0.40 .. 0.03)
TEAM_DISTRIBUTION == << <<"Engineering", 750>>, <<"Product", 250>> >>

Departments == {TEAM_DISTRIBUTION[k][1] : k \in 1..Len(TEAM_DISTRIBUTION)}

\* TEAM_SIZE_RANGES: (min, max) members of a team (config.py: 3..15)
TEAM_SIZE_RANGES == [d \in Departments |-> <<1, 2>>]

\* STANDARD_CUSTOM_FIELDS and COMMON_TAGS: the names
STANDARD_CUSTOM_FIELDS == <<"Priority", "Effort", "Status", "Story Points", "Sprint">>
COMMON_TAGS == <<"bug", "feature", "enhancement">>

\* the sections of a project's template (SECTION_TEMPLATES: 3 to 5 names)
SECTION_TEMPLATE == <<"To Do", "In Progress", "Done">>

\* generate_all: the stages in the order it calls them
generate_all_tasks_first ==
    << "generate_organization", "generate_teams", "generate_users",
       "generate_team_memberships", "generate_custom_fields", "generate_tags",
       "generate_projects", "generate_tasks", "generate_sections",
       "generate_subtasks", "generate_comments",
       "generate_custom_field_values", "generate_task_tags",
       "generate_attachments" >>
generate_all ==
    << "generate_organization", "generate_teams", "generate_users",
       "generate_team_memberships", "generate_custom_fields", "generate_tags",
       "generate_projects", "generate_sections", "generate_tasks",
       "generate_subtasks", "generate_comments",
       "generate_custom_field_values", "generate_task_tags",
       "generate_attachments" >>

\* main(): setup() runs first, then the stages of generate_all; after the
\* last stage generate_all calls print_stats
\* the step main() takes after `stage`
Following(stage) ==
    IF stage = "setup" THEN generate_all[1]
    ELSE LET k == CHOOSE j \in 1..Len(generate_all) : generate_all[j] = stage
         IN IF k = Len(generate_all) THEN "print_stats" ELSE generate_all[k + 1]

\* the end of a stage that issues db.insert_many for `tables`: n of the
\* inserts succeed; when one raises, the exception leaves generate_all and
\* main()'s handler calls sys.exit(1)
FinishAndContinue(stage, tables, n) ==
    /\ inserted' = inserted \o SubSeq(tables, 1, n)
    /\ pc' = Following(stage)
    /\ finished' = Append(finished, stage)
    /\ raised' = IF n = Len(tables) THEN raised ELSE stage
    /\ exit_status' = IF n = Len(tables) THEN exit_status ELSE 1
Finish(stage, tables, n) ==
    /\ inserted' = inserted \o SubSeq(tables, 1, n)
    /\ IF n = Len(tables)
       THEN /\ pc' = Following(stage)
            /\ finished' = Append(finished, stage)
            /\ UNCHANGED <<raised, exit_status>>
       ELSE /\ pc' = "failed"
            /\ raised' = stage
            /\ exit_status' = 1
            /\ finished' = finished

----------------------------------------------------------------------------
(* src/scrapers/companies.py: the company provider.  A string is the        *)
(* sequence of its characters; a fetch is what session.get and the parser   *)
(* yield: an exception, or the texts of the company links of the page.      *)

\* str.lower() on the characters of the enumerated strings
LowerChar(c) ==
    CASE c = "A" -> "a" [] c = "B" -> "b" [] c = "C" -> "c" [] c = "E" -> "e"
      [] c = "I" -> "i" [] c = "X" -> "x" [] c = "Y" -> "y" [] OTHER -> c
Lower(str) == [i \in 1..Len(str) |-> LowerChar(str[i])]

RECURSIVE StripLeft(_)
StripLeft(str) == IF str # <<>> /\ Head(str) = " " THEN StripLeft(Tail(str)) ELSE str

RECURSIVE StripRight(_)
StripRight(str) ==
    IF str # <<>> /\ str[Len(str)] = " " THEN StripRight(SubSeq(str, 1, Len(str) - 1)) ELSE str

\* str.strip()
Strip(str) == StripRight(StripLeft(str))

\* str.isalnum() on the characters of the enumerated strings
IsAlnum(c) == c \notin {" ", "-", "."}

\* _generate_domain: lower case, only the alphanumeric characters, ".com"
GenerateDomain(company_name) ==
    SelectSeq(Lower(company_name), IsAlnum) \o <<".", "c", "o", "m">>

\* the static list of _get_fallback_companies (30 entries in the code)
FALLBACK_COMPANIES ==
    << [name |-> <<"S", "t", "r", "i", "p", "e">>, domain |-> <<"s", "t", "r", "i", "p", "e", ".", "c", "o", "m">>],
       [name |-> <<"A", "i", "r", "b", "n", "b">>, domain |-> <<"a", "i", "r", "b", "n", "b", ".", "c", "o", "m">>],
       [name |-> <<"T", "w", "i", "t", "c", "h">>, domain |-> <<"t", "w", "i", "t", "c", "h", ".", "t", "v">>] >>

\* the names f"{prefix}{suffix}" _get_fallback_companies draws to reach limit
SyntheticNames == { <<"C", "l", "o", "u", "d", "A", "I">>, <<"E", "d", "g", "e", "A", "I">> }

\* _get_fallback_companies: synthetic are the names drawn while the list is
\* shorter than limit
GetFallbackCompanies(limit, synthetic) ==
    LET fallback == FALLBACK_COMPANIES \o
                    [i \in 1..Len(synthetic) |-> [name |-> synthetic[i], domain |-> Lower(synthetic[i]) \o <<".", "c", "o", "m">>]]
    IN SubSeq(fallback, 1, Min(limit, Len(fallback)))

RECURSIVE UsableCompanies(_)
\* the loop over company_links[:limit]: a company for every link whose
\* stripped text is longer than 2 characters
UsableCompanies(links) ==
    IF links = <<>> THEN <<>>
    ELSE LET company_name == Strip(Head(links))
         IN (IF Len(company_name) > 2
             THEN << [name |-> company_name, domain |-> GenerateDomain(company_name)] >>
             ELSE <<>>) \o UsableCompanies(Tail(links))

\* scrape_companies: the fallback list when the fetch raised, else the
\* usable companies among the first `limit` links
scrape_companies(limit, fetch, synthetic) ==
    LET companies == IF fetch.raised THEN GetFallbackCompanies(limit, synthetic)
                     ELSE UsableCompanies(SubSeq(fetch.links, 1, Min(limit, Len(fetch.links))))
    IN SubSeq(companies, 1, Min(limit, Len(companies)))

get_company_data(limit, fetch, synthetic) == scrape_companies(limit, fetch, synthetic)

\* a fetch that raised, and a fetch that returned a page with these links
FetchRaised == [raised |-> TRUE, links |-> <<>>]
FetchReturned(links) == [raised |-> FALSE, links |-> links]

\* the fetches a run meets: no network, and a page whose first link has a
\* text of two characters
RunFetches == {FetchRaised, FetchReturned(<< <<"A", "I">> >>)}

\* the largest limit enumerated
MaxLimit == 4

\* the most links of an enumerated page
MaxLinks == 2

\* the link texts enumerated: empty, blank, too short, and usable ones
LinkTexts ==
    { <<>>, <<" ", " ">>, <<"A", "I">>, <<" ", "A", "I", " ">>,
      <<"X", "y", "z">>, <<" ", "Y", "-", "C", " ", "4", " ">> }

\* the fetches enumerated
Fetches ==
    {FetchRaised} \cup UNION {{FetchReturned(links) : links \in [1..n -> LinkTexts]} : n \in 0..MaxLinks}

InitCompany ==
    /\ NoRun
    /\ fn = "idle"
    /\ \E limit \in 1..MaxLimit : args = [limit |-> limit]
    /\ draws = [fetch |-> FetchRaised, synthetic |-> <<>>]
    /\ ret = <<>>

\* one call get_company_data(limit)
CallGetCompanyData ==
    /\ fn = "idle"
    /\ "limit" \in DOMAIN args
    /\ \E fetch \in Fetches :
       \E synthetic \in [1..(IF fetch.raised THEN Max(0, args.limit - Len(FALLBACK_COMPANIES)) ELSE 0) -> SyntheticNames] :
         /\ draws' = [fetch |-> fetch, synthetic |-> synthetic]
         /\ ret' = get_company_data(args.limit, fetch, synthetic)
    /\ fn' = "get_company_data"
    /\ UNCHANGED <<args, runVars, entityVars, nameVars, llmVars>>

SpecCompany == InitCompany /\ [][CallGetCompanyData]_vars

----------------------------------------------------------------------------
(* src/main.py: the first stages *)

\* setup(): create_database and LLMGenerator(); ok is whether both return,
\* api_key whether config.ANTHROPIC_API_KEY is set: the generator then has a
\* client.  When one raises, self.llm stays None
setup ==
    /\ pc = "setup"
    /\ \E ok \in BOOLEAN :
         IF ok
         THEN /\ pc' = Following("setup")
              /\ \E api_key \in BOOLEAN : client' = api_key
              /\ UNCHANGED <<raised, exit_status>>
         ELSE /\ pc' = "failed"
              /\ raised' = "setup"
              /\ exit_status' = 1
              /\ client' = FALSE
    /\ UNCHANGED <<finished, inserted, fnVars, entityVars, nameVars, call_count, total_tokens, generate_calls>>

\* generate_organization: companies[0] raises IndexError when
\* get_company_data(limit=1) returned an empty list
generate_organization ==
    /\ pc = "generate_organization"
    /\ \E fetch \in RunFetches :
         IF get_company_data(1, fetch, <<>>) = <<>>
         THEN /\ pc' = "failed"
              /\ raised' = "generate_organization"
              /\ exit_status' = 1
              /\ UNCHANGED <<organization, finished, inserted>>
         ELSE /\ organization' = 1
              /\ \E n \in 0..1 : Finish("generate_organization", <<"organizations">>, n)
    /\ UNCHANGED <<llmVars, nameVars, fnVars, NUM_EMPLOYEES, teams, users, team_memberships, custom_fields, tags, projects, sections, tasks, comments, db_tasks, loop>>

\* dept_allocations[dept] = int(NUM_EMPLOYEES * percentage)
DeptAllocation(k) == (NUM_EMPLOYEES * TEAM_DISTRIBUTION[k][2]) \div 1000

\* num_teams = max(1, int(num_dept_employees / avg_team_size)), with
\* avg_team_size = (min_size + max_size) / 2; no team for an allocation of 0
NumTeams(k) ==
    LET range == TEAM_SIZE_RANGES[TEAM_DISTRIBUTION[k][1]]
    IN IF DeptAllocation(k) = 0 THEN 0
       ELSE Max(1, (2 * DeptAllocation(k)) \div (range[1] + range[2]))

RECURSIVE TeamTypes(_)
\* the team_type of the teams appended for the departments k, k+1, ...
TeamTypes(k) ==
    IF k > Len(TEAM_DISTRIBUTION) THEN <<>>
    ELSE [i \in 1..NumTeams(k) |-> TEAM_DISTRIBUTION[k][1]] \o TeamTypes(k + 1)

generate_teams ==
    /\ pc = "generate_teams"
    /\ teams' = [i \in 1..Len(TeamTypes(1)) |-> [team_id |-> i, team_type |-> TeamTypes(1)[i]]]
    /\ \E n \in 0..1 : Finish("generate_teams", <<"teams">>, n)
    /\ UNCHANGED <<llmVars, nameVars, fnVars, NUM_EMPLOYEES, organization, users, team_memberships, custom_fields, tags, projects, sections, tasks, comments, db_tasks, loop>>

\* one user per generated name, its department drawn by random.choices
generate_users ==
    /\ pc = "generate_users"
    /\ \E department \in [1..NUM_EMPLOYEES -> Departments] :
         users' = [i \in 1..NUM_EMPLOYEES |-> [user_id |-> i, department |-> department[i]]]
    /\ \E n \in 0..1 : Finish("generate_users", <<"users">>, n)
    /\ UNCHANGED <<llmVars, nameVars, fnVars, NUM_EMPLOYEES, organization, teams, team_memberships, custom_fields, tags, projects, sections, tasks, comments, db_tasks, loop>>

\* users_by_dept: the user_ids of each department
UsersByDept == [d \in Departments |-> {users[i].user_id : i \in {j \in 1..Len(users) : users[j].department = d}}]

\* random.sample(population, k): k distinct elements of the population, in
\* the order they were drawn
sample(population, k) ==
    {s \in [1..k -> population] : \A i, j \in 1..k : i # j => s[i] # s[j]}

\* the pool after `dept_users.remove(member)` for every selected member
RemoveMembersKeepPool(dept_users, team_members) == dept_users
RemoveMembers(dept_users, team_members) == dept_users \ Range(team_members)

\* the memberships appended for one team: one per selected member, in the
\* order of the sample, the lead flagged by `member.user_id == lead.user_id`
MembershipsForAllLead(team, team_members, lead) ==
    [i \in 1..Len(team_members) |-> [team_id |-> team.team_id, user_id |-> team_members[i], is_team_lead |-> TRUE]]
MembershipsFor(team, team_members, lead) ==
    [i \in 1..Len(team_members) |-> [team_id |-> team.team_id, user_id |-> team_members[i], is_team_lead |-> (team_members[i] = lead)]]

RECURSIVE AssignTeams(_, _, _)
\* the loop over self.teams from the k-th team on: every list of memberships
\* the draws (target size, sample, lead) can produce, given the remaining
\* pools and the memberships appended so far
AssignTeams(k, pools, acc) ==
    IF k > Len(teams) THEN {acc}
    ELSE LET team == teams[k]
             dept_users == pools[team.team_type]
             range == TEAM_SIZE_RANGES[team.team_type]
         IN IF dept_users = {} THEN AssignTeams(k + 1, pools, acc)
            ELSE UNION {
                   UNION {
                     UNION { AssignTeams(k + 1,
                                [pools EXCEPT ![team.team_type] = RemoveMembers(dept_users, team_members)],
                                acc \o MembershipsFor(team, team_members, lead))
                             : lead \in Range(team_members) }
                     : team_members \in sample(dept_users, Min(size, Cardinality(dept_users))) }
                   : size \in range[1]..range[2] }

generate_team_memberships ==
    /\ pc = "generate_team_memberships"
    /\ \E ms \in AssignTeams(1, UsersByDept, <<>>) : team_memberships' = ms
    /\ \E n \in 0..1 : Finish("generate_team_memberships", <<"team_memberships">>, n)
    /\ UNCHANGED <<llmVars, nameVars, fnVars, NUM_EMPLOYEES, organization, teams, users, custom_fields, tags, projects, sections, tasks, comments, db_tasks, loop>>

generate_custom_fields ==
    /\ pc = "generate_custom_fields"
    /\ custom_fields' = STANDARD_CUSTOM_FIELDS
    /\ \E n \in 0..2 : Finish("generate_custom_fields", <<"custom_field_definitions", "custom_field_enum_options">>, n)
    /\ UNCHANGED <<llmVars, nameVars, fnVars, NUM_EMPLOYEES, organization, teams, users, team_memberships, tags, projects, sections, tasks, comments, db_tasks, loop>>

generate_tags ==
    /\ pc = "generate_tags"
    /\ tags' = COMMON_TAGS
    /\ \E n \in 0..1 : Finish("generate_tags", <<"tags">>, n)
    /\ UNCHANGED <<llmVars, nameVars, fnVars, NUM_EMPLOYEES, organization, teams, users, team_memberships, custom_fields, projects, sections, tasks, comments, db_tasks, loop>>

----------------------------------------------------------------------------
(* src/main.py: projects, sections and tasks *)

\* the per-parent counts, scaled down: random.randint(3, 5) projects per
\* team, random.randint(15, 40) tasks per project, SUBTASKS_PER_TASK = (1, 5),
\* COMMENTS_PER_TASK = (1, 8)
PROJECTS_PER_TEAM == <<1, 1>>
TASKS_PER_PROJECT == <<1, 1>>
SUBTASKS_PER_TASK == <<1, 2>>
COMMENTS_PER_TASK == <<1, 1>>

\* the most tasks self.tasks may hold: generate_subtasks is cut off there
MaxTasks == 3

\* timedelta(days=30): no project is created in the last 30 days
PROJECT_BUFFER_DAYS == 30

\* generate_created_at: instant is the draw of random_datetime_between that
\* the weekday loop accepted, hour the draw of randint(9, 18); the minute
\* draw is taken as 0
generate_created_at(start, end, instant, hour) ==
    Midnight(DateOf(instant)) + hour

\* random_datetime_between: the values of start + uniform(0, end - start);
\* for an inverted range the offset is negative and the value lies between
\* end and start
RandomDatetimesBetween(start, end) ==
    IF start <= end THEN start..end ELSE end..start

\* the draws generate_created_at can accept: a value of
\* random_datetime_between, on Monday to Wednesday when the bias draw
\* succeeded
AcceptedInstant(start, end, biased, instant) ==
    /\ instant \in RandomDatetimesBetween(start, end)
    /\ biased => Weekday(DateOf(instant)) \in {0, 1, 2}

\* noon of the first Monday after t
MondayAfter(t) == Midnight(DateOf(t) + 7 - Weekday(DateOf(t))) + 12

\* the instants a run draws from a range: the first Monday in it and its
\* last hour
RunInstants(start, end) ==
    {t \in {MondayAfter(start), end - 1} : start <= t /\ t <= end}

\* the hours of the day a run draws
RunHours == {9}

\* every creation time a run draws in [start, end]
RunCreatedAts(start, end) ==
    {generate_created_at(start, end, t, h) :
        t \in {u \in RunInstants(start, end) : \E biased \in BOOLEAN : AcceptedInstant(start, end, biased, u)},
        h \in RunHours}

\* team_member_ids: the user_ids of the memberships of a team
TeamMemberIdsAnyTeam(team_id) ==
    {team_memberships[i].user_id : i \in 1..Len(team_memberships)}
TeamMemberIds(team_id) ==
    {team_memberships[i].user_id : i \in {j \in 1..Len(team_memberships) : team_memberships[j].team_id = team_id}}

RECURSIVE ProjectsFrom(_, _)
\* the loop over self.teams from the k-th team on: every list of projects
\* the draws can produce; a team without members gets none
ProjectsFrom(k, acc) ==
    IF k > Len(teams) THEN {acc}
    ELSE IF TeamMemberIds(teams[k].team_id) = {} THEN ProjectsFrom(k + 1, acc)
    ELSE UNION {
           UNION { ProjectsFrom(k + 1,
                      acc \o [i \in 1..num_projects |->
                                [project_id |-> Len(acc) + i, team_id |-> teams[k].team_id, created_at |-> created[i]]])
                   : created \in [1..num_projects -> RunCreatedAts(START_DATE, END_DATE - PROJECT_BUFFER_DAYS * HoursPerDay)] }
           : num_projects \in PROJECTS_PER_TEAM[1]..PROJECTS_PER_TEAM[2] }

generate_projects ==
    /\ pc = "generate_projects"
    /\ \E ps \in ProjectsFrom(1, <<>>) : projects' = ps
    /\ \E n \in 0..1 : Finish("generate_projects", <<"projects">>, n)
    /\ UNCHANGED <<llmVars, nameVars, fnVars, NUM_EMPLOYEES, organization, teams, users, team_memberships, custom_fields, tags, sections, tasks, comments, db_tasks, loop>>

\* one section per name of the template, for every project
generate_sections ==
    /\ pc = "generate_sections"
    /\ sections' = [j \in 1..(Len(projects) * Len(SECTION_TEMPLATE)) |->
                      [section_id |-> j,
                       project_id |-> projects[((j - 1) \div Len(SECTION_TEMPLATE)) + 1].project_id,
                       position |-> (j - 1) % Len(SECTION_TEMPLATE)]]
    /\ \E n \in 0..1 : Finish("generate_sections", <<"sections">>, n)
    /\ UNCHANGED <<llmVars, nameVars, fnVars, NUM_EMPLOYEES, organization, teams, users, team_memberships, custom_fields, tags, projects, tasks, comments, db_tasks, loop>>

\* Task(...): the fields the stages set, the others at their defaults
Task(task_id, project_id, parent_task_id, assignee_id, created_by, status, due_date, created_at, modified_at, completed_at, completed_by) ==
    [task_id |-> task_id, project_id |-> project_id, parent_task_id |-> parent_task_id,
     assignee_id |-> assignee_id, created_by |-> created_by, status |-> status,
     due_date |-> due_date, created_at |-> created_at, modified_at |-> modified_at,
     completed_at |-> completed_at, completed_by |-> completed_by,
     num_subtasks |-> 0, num_comments |-> 0]

\* the draws a run makes for a due date and for a completion time
RunDueDraws ==
    {[rand |-> 0, days |-> 7, clamp |-> 1, skip |-> FALSE],
     [rand |-> 900, days |-> 0, clamp |-> 0, skip |-> FALSE]}
RunCompletionDraws ==
    {[elapsed |-> 108, clampH |-> 48, cluster |-> c, offset |-> -12, reclampH |-> 2] : c \in BOOLEAN}

\* the draws of random_datetime_between(created_at, now) a run makes
RunModifiedPoints(created_at, now) == {t \in {created_at, now - 1} : created_at <= t /\ t <= now}

\* the task the inner loop of generate_tasks builds for a project, given the
\* draws: unassigned is `random.random() < UNASSIGNED_TASK_RATE`, member and
\* creator the random.choice draws, is_completed the doubly stochastic draw
NewTask(task_id, project, unassigned, member, creator, created_at, due, is_completed, completion, point) ==
    LET assignee_id == IF unassigned THEN 0 ELSE member
        due_date == generate_due_date(created_at, DUE_DATE_DISTRIBUTION, END_DATE, due.rand, due.days, due.clamp, due.skip)
        completed_at == IF is_completed
                        THEN generate_completion_time(created_at, due_date, END_DATE, completion.elapsed, completion.clampH, completion.cluster, completion.offset, completion.reclampH)
                        ELSE NoneT
        completed_by == IF is_completed THEN (IF assignee_id # 0 THEN assignee_id ELSE creator) ELSE 0
    IN Task(task_id, project.project_id, 0, assignee_id, creator,
            IF is_completed THEN "complete" ELSE "incomplete",
            due_date, created_at,
            generate_modified_at(created_at, completed_at, END_DATE, point),
            completed_at, completed_by)

\* generate_tasks, outer loop: the next project is entered and num_tasks
\* drawn; a project without sections is skipped
generate_tasks_project ==
    /\ pc = "generate_tasks"
    /\ loop.n = 0
    /\ loop.i < Len(projects)
    /\ \E num_tasks \in TASKS_PER_PROJECT[1]..TASKS_PER_PROJECT[2] :
         IF \E j \in 1..Len(sections) : sections[j].project_id = projects[loop.i + 1].project_id
         THEN loop' = [i |-> loop.i, n |-> num_tasks]
         ELSE loop' = [i |-> loop.i + 1, n |-> 0]
    /\ UNCHANGED <<llmVars, nameVars, fnVars, runVars, NUM_EMPLOYEES, organization, teams, users, team_memberships, custom_fields, tags, projects, sections, tasks, comments, db_tasks>>

\* generate_tasks, inner loop: one task of the current project is appended
\* (a project exists only for a team with members, so the choices of the
\* assignee and of the creator are never over an empty list)
generate_tasks_task ==
    /\ pc = "generate_tasks"
    /\ loop.n > 0
    /\ LET project == projects[loop.i + 1]
           members == TeamMemberIds(project.team_id)
       IN \E unassigned \in BOOLEAN, member \in members, creator \in members, is_completed \in BOOLEAN :
          \E created_at \in RunCreatedAts(project.created_at, END_DATE), due \in RunDueDraws, completion \in RunCompletionDraws :
          \E point \in RunModifiedPoints(created_at, END_DATE) :
             tasks' = Append(tasks, NewTask(Len(tasks) + 1, project, unassigned, member, creator, created_at, due, is_completed, completion, point))
    /\ loop' = IF loop.n = 1 THEN [i |-> loop.i + 1, n |-> 0] ELSE [i |-> loop.i, n |-> loop.n - 1]
    /\ UNCHANGED <<llmVars, nameVars, fnVars, runVars, NUM_EMPLOYEES, organization, teams, users, team_memberships, custom_fields, tags, projects, sections, comments, db_tasks>>

\* generate_tasks, after the loops: the tasks are inserted
generate_tasks_insert ==
    /\ pc = "generate_tasks"
    /\ loop.n = 0
    /\ loop.i = Len(projects)
    /\ \E n \in 0..1 :
         /\ Finish("generate_tasks", <<"tasks">>, n)
         /\ db_tasks' = IF n = 1 THEN tasks ELSE db_tasks
    /\ loop' = [i |-> 0, n |-> 0]
    /\ UNCHANGED <<llmVars, nameVars, fnVars, NUM_EMPLOYEES, organization, teams, users, team_memberships, custom_fields, tags, projects, sections, tasks, comments>>

----------------------------------------------------------------------------
(* src/main.py: subtasks, comments and the last stages *)

\* the draws of randint(1, 48) hours a run makes for a subtask
RunSubtaskHours == {1, 48}

\* the subtask generate_subtasks builds for `task`: roll is
\* `random.random() < 0.8`, drawn only when the parent is complete
NewSubtask(task_id, task, roll, hours) ==
    Task(task_id, task.project_id, task.task_id, task.assignee_id, task.created_by,
         IF task.status = "complete" /\ roll THEN "complete" ELSE "incomplete",
         NoneT, task.created_at + hours, task.modified_at, NoneT, 0)

\* parent_task_counts[task_id]: the tasks of ts whose parent is task_id
ParentTaskCount(ts, task_id) ==
    Cardinality({j \in 1..Len(ts) : ts[j].parent_task_id = task_id})

\* the update of the parents: num_subtasks is set for the tasks that are
\* keys of parent_task_counts
BackfillSubtasks(ts) ==
    [j \in 1..Len(ts) |->
        IF ParentTaskCount(ts, ts[j].task_id) > 0
        THEN [ts[j] EXCEPT !.num_subtasks = ParentTaskCount(ts, ts[j].task_id)]
        ELSE ts[j]]

\* the subsequence of the tasks that have a parent
RECURSIVE Subtasks(_)
Subtasks(ts) ==
    IF ts = <<>> THEN <<>>
    ELSE (IF Head(ts).parent_task_id # 0 THEN <<Head(ts)>> ELSE <<>>) \o Subtasks(Tail(ts))

\* generate_subtasks, one iteration of `for task in self.tasks`: the list
\* iterator goes by index, so the loop also visits the subtasks appended
\* during the loop; skip is `random.random() > SUBTASK_RATE`
generate_subtasks_task ==
    /\ pc = "generate_subtasks"
    /\ loop.i < Len(tasks)
    /\ LET task == tasks[loop.i + 1] IN
       \E skip \in BOOLEAN :
          IF skip THEN tasks' = tasks
          ELSE \E num_subtasks \in SUBTASKS_PER_TASK[1]..SUBTASKS_PER_TASK[2] :
               /\ Len(tasks) + num_subtasks <= MaxTasks
               /\ \E roll \in [1..num_subtasks -> (IF task.status = "complete" THEN BOOLEAN ELSE {FALSE})],
                     hours \in [1..num_subtasks -> RunSubtaskHours] :
                    tasks' = tasks \o [k \in 1..num_subtasks |-> NewSubtask(Len(tasks) + k, task, roll[k], hours[k])]
    /\ loop' = [i |-> loop.i + 1, n |-> 0]
    /\ UNCHANGED <<llmVars, nameVars, fnVars, runVars, NUM_EMPLOYEES, organization, teams, users, team_memberships, custom_fields, tags, projects, sections, comments, db_tasks>>

\* generate_subtasks, after the loop: the parents' counts are updated and
\* the tasks that have a parent are inserted
generate_subtasks_insert ==
    /\ pc = "generate_subtasks"
    /\ loop.i = Len(tasks)
    /\ tasks' = BackfillSubtasks(tasks)
    /\ \E n \in 0..1 :
         /\ Finish("generate_subtasks", <<"tasks">>, n)
         /\ db_tasks' = IF n = 1 THEN db_tasks \o Subtasks(BackfillSubtasks(tasks)) ELSE db_tasks
    /\ loop' = [i |-> 0, n |-> 0]
    /\ UNCHANGED <<llmVars, nameVars, fnVars, NUM_EMPLOYEES, organization, teams, users, team_memberships, custom_fields, tags, projects, sections, comments>>

\* the potential commenters of a task: its non-null assignee and creator
Commenters(task) == {task.assignee_id, task.created_by} \ {0}

\* generate_comments, one iteration of `for task in self.tasks`; skip is
\* `random.random() > COMMENT_RATE`; a task without commenters gets none
generate_comments_task ==
    /\ pc = "generate_comments"
    /\ loop.i < Len(tasks)
    /\ LET task == tasks[loop.i + 1] IN
       \E skip \in BOOLEAN, num_comments \in COMMENTS_PER_TASK[1]..COMMENTS_PER_TASK[2] :
          IF skip \/ Commenters(task) = {} THEN comments' = comments
          ELSE comments' = comments \o [k \in 1..num_comments |-> task.task_id]
    /\ loop' = [i |-> loop.i + 1, n |-> 0]
    /\ UNCHANGED <<llmVars, nameVars, fnVars, runVars, NUM_EMPLOYEES, organization, teams, users, team_memberships, custom_fields, tags, projects, sections, tasks, db_tasks>>

\* the update of the comment counts: num_comments is set for every task
BackfillCommentsUnfiltered(ts, cs) ==
    [j \in 1..Len(ts) |-> [ts[j] EXCEPT !.num_comments = Len(cs)]]
BackfillComments(ts, cs) ==
    [j \in 1..Len(ts) |->
        [ts[j] EXCEPT !.num_comments = Cardinality({k \in 1..Len(cs) : cs[k] = ts[j].task_id})]]

\* generate_comments, after the loop: the counts are updated and the
\* comments inserted
generate_comments_insert ==
    /\ pc = "generate_comments"
    /\ loop.i = Len(tasks)
    /\ tasks' = BackfillComments(tasks, comments)
    /\ \E n \in 0..1 : Finish("generate_comments", <<"comments">>, n)
    /\ loop' = [i |-> 0, n |-> 0]
    /\ UNCHANGED <<llmVars, nameVars, fnVars, NUM_EMPLOYEES, organization, teams, users, team_memberships, custom_fields, tags, projects, sections, comments, db_tasks>>

\* generate_custom_field_values returns before its insert when the Priority
\* or the Effort field is missing
generate_custom_field_values ==
    /\ pc = "generate_custom_field_values"
    /\ IF \A name \in {"Priority", "Effort"} : \E j \in 1..Len(custom_fields) : custom_fields[j] = name
       THEN \E n \in 0..1 : Finish("generate_custom_field_values", <<"custom_field_values">>, n)
       ELSE Finish("generate_custom_field_values", <<>>, 0)
    /\ UNCHANGED <<llmVars, nameVars, fnVars, entityVars>>

generate_task_tags ==
    /\ pc = "generate_task_tags"
    /\ \E n \in 0..1 : Finish("generate_task_tags", <<"task_tags">>, n)
    /\ UNCHANGED <<llmVars, nameVars, fnVars, entityVars>>

generate_attachments ==
    /\ pc = "generate_attachments"
    /\ \E n \in 0..1 : Finish("generate_attachments", <<"attachments">>, n)
    /\ UNCHANGED <<llmVars, nameVars, fnVars, entityVars>>

\* print_stats: db.count on thirteen tables, then the counters of the
\* generator; ok is whether every count returns.  When one raises, the
\* exception leaves generate_all and main()'s handler calls sys.exit(1)
print_stats ==
    /\ pc = "print_stats"
    /\ \E ok \in BOOLEAN :
         IF ok THEN pc' = "complete" /\ UNCHANGED <<raised, exit_status>>
         ELSE pc' = "failed" /\ raised' = "print_stats" /\ exit_status' = 1
    /\ UNCHANGED <<finished, inserted, fnVars, entityVars, nameVars, llmVars>>

----------------------------------------------------------------------------
(* A run of main() *)

\* the largest NUM_EMPLOYEES of the enumerated runs
MaxEmployees == 2

Init ==
    /\ fn = "idle"
    /\ args = <<>>
    /\ draws = <<>>
    /\ ret = NoneT
    /\ pc = "setup"
    /\ raised = "none"
    /\ exit_status = 0
    /\ finished = <<>>
    /\ inserted = <<>>
    /\ NUM_EMPLOYEES \in 1..MaxEmployees
    /\ organization = 0
    /\ teams = <<>>
    /\ users = <<>>
    /\ team_memberships = <<>>
    /\ custom_fields = <<>>
    /\ tags = <<>>
    /\ projects = <<>>
    /\ sections = <<>>
    /\ tasks = <<>>
    /\ comments = <<>>
    /\ db_tasks = <<>>
    /\ loop = [i |-> 0, n |-> 0]
    /\ used_emails = {}
    /\ name_data = <<>>
    /\ client = FALSE
    /\ call_count = 0
    /\ total_tokens = 0
    /\ generate_calls = <<>>

Next ==
    \/ setup
    \/ generate_organization
    \/ generate_teams
    \/ generate_users
    \/ generate_team_memberships
    \/ generate_custom_fields
    \/ generate_tags
    \/ generate_projects
    \/ generate_sections
    \/ generate_tasks_project
    \/ generate_tasks_task
    \/ generate_tasks_insert
    \/ generate_subtasks_task
    \/ generate_subtasks_insert
    \/ generate_comments_task
    \/ generate_comments_insert
    \/ generate_custom_field_values
    \/ generate_task_tags
    \/ generate_attachments
    \/ print_stats

Spec == Init /\ [][Next]_vars

----------------------------------------------------------------------------
(* The first stages of a run, for larger organizations *)

\* the largest NUM_EMPLOYEES of the enumerated first halves of a run
MaxTeamEmployees == 4

InitTeams ==
    /\ fn = "idle"
    /\ args = <<>>
    /\ draws = <<>>
    /\ ret = NoneT
    /\ pc = "setup"
    /\ raised = "none"
    /\ exit_status = 0
    /\ finished = <<>>
    /\ inserted = <<>>
    /\ NUM_EMPLOYEES \in 1..MaxTeamEmployees
    /\ organization = 0
    /\ teams = <<>>
    /\ users = <<>>
    /\ team_memberships = <<>>
    /\ custom_fields = <<>>
    /\ tags = <<>>
    /\ projects = <<>>
    /\ sections = <<>>
    /\ tasks = <<>>
    /\ comments = <<>>
    /\ db_tasks = <<>>
    /\ loop = [i |-> 0, n |-> 0]
    /\ used_emails = {}
    /\ name_data = <<>>
    /\ client = FALSE
    /\ call_count = 0
    /\ total_tokens = 0
    /\ generate_calls = <<>>

NextTeams ==
    \/ setup
    \/ generate_organization
    \/ generate_teams
    \/ generate_users
    \/ generate_team_memberships
    \/ generate_custom_fields
    \/ generate_tags
    \/ generate_projects

SpecTeams == InitTeams /\ [][NextTeams]_vars

----------------------------------------------------------------------------
(* generate_tasks in organizations with several teams: the states in which  *)
(* the stage starts, after the stages before it returned and inserted       *)
(* their rows                                                               *)

\* the largest NUM_EMPLOYEES of the enumerated task stages; with 4 employees
\* generate_teams builds two Engineering teams and one Product team
MaxTaskEmployees == 4

\* the department draws of generate_users behind the enumerated states:
\* every user in Engineering, and the first in Engineering with the others
\* in Product; both leave one of the three teams without members
TaskDepartmentDraws(n) ==
    { [i \in 1..n |-> "Engineering"],
      [i \in 1..n |-> IF i = 1 THEN "Engineering" ELSE "Product"] }

\* the creation time generate_projects drew for every project of the
\* enumerated states: the first one a run draws
TaskProjectCreatedAt ==
    CHOOSE t \in RunCreatedAts(START_DATE, END_DATE - PROJECT_BUFFER_DAYS * HoursPerDay) :
        \A u \in RunCreatedAts(START_DATE, END_DATE - PROJECT_BUFFER_DAYS * HoursPerDay) : t <= u

InitTasks ==
    /\ NoGenerator
    /\ fn = "idle"
    /\ args = <<>>
    /\ draws = <<>>
    /\ ret = NoneT
    /\ used_emails = {}
    /\ name_data = <<>>
    /\ pc = "generate_tasks"
    /\ raised = "none"
    /\ exit_status = 0
    /\ finished = SubSeq(generate_all, 1, 8)
    /\ inserted = <<"organizations", "teams", "users", "team_memberships",
                    "custom_field_definitions", "custom_field_enum_options",
                    "tags", "projects", "sections">>
    /\ NUM_EMPLOYEES \in 4..MaxTaskEmployees
    /\ organization = 1
    /\ teams = [i \in 1..Len(TeamTypes(1)) |-> [team_id |-> i, team_type |-> TeamTypes(1)[i]]]
    /\ \E department \in TaskDepartmentDraws(NUM_EMPLOYEES) :
          users = [i \in 1..NUM_EMPLOYEES |-> [user_id |-> i, department |-> department[i]]]
    /\ team_memberships \in AssignTeams(1, UsersByDept, <<>>)
    /\ custom_fields = STANDARD_CUSTOM_FIELDS
    /\ tags = COMMON_TAGS
    /\ projects \in {ps \in ProjectsFrom(1, <<>>) : \A p \in 1..Len(ps) : ps[p].created_at = TaskProjectCreatedAt}
    /\ sections = [j \in 1..(Len(projects) * Len(SECTION_TEMPLATE)) |->
                      [section_id |-> j,
                       project_id |-> projects[((j - 1) \div Len(SECTION_TEMPLATE)) + 1].project_id,
                       position |-> (j - 1) % Len(SECTION_TEMPLATE)]]
    /\ tasks = <<>>
    /\ comments = <<>>
    /\ db_tasks = <<>>
    /\ loop = [i |-> 0, n |-> 0]

SpecTasks == InitTasks /\ [][generate_tasks_project \/ generate_tasks_task \/ generate_tasks_insert]_vars

----------------------------------------------------------------------------
(* src/utils/distributions.py: pareto_distribution.  A weight is an exact   *)
(* fraction <<numerator, denominator>>; ratio and top_percentage are in per *)
(* mille.                                                                   *)

RECURSIVE Gcd(_, _)
Gcd(a, b) == IF b = 0 THEN a ELSE Gcd(b, a % b)

\* a fraction in lowest terms
Reduce(f) == LET g == Gcd(f[1], f[2]) IN IF g = 0 THEN f ELSE <<f[1] \div g, f[2] \div g>>

\* the sum and the equality of two fractions
AddFrac(f, g) == Reduce(<<f[1] * g[2] + g[1] * f[2], f[2] * g[2]>>)
EqFrac(f, g) == f[1] * g[2] = g[1] * f[2]

RECURSIVE SumWeights(_, _)
\* sum(weights[item] for item in items)
SumWeights(weights, items) ==
    IF items = <<>> THEN <<0, 1>>
    ELSE IF Len(items) = 1 THEN Reduce(weights[items[1]])
    ELSE LET half == Len(items) \div 2
         IN AddFrac(SumWeights(weights, SubSeq(items, 1, half)),
                    SumWeights(weights, SubSeq(items, half + 1, Len(items))))

\* n_top = max(1, int(n * top_percentage))
TopGroupSizeCeil(n, top_percentage) == Max(1, (n * top_percentage + 999) \div 1000)
TopGroupSize(n, top_percentage) == Max(1, (n * top_percentage) \div 1000)

\* pareto_distribution with its draw made explicit: shuffled is the list
\* after random.shuffle; the dictionary is filled for the top items first,
\* then for the bottom items
pareto_distribution(items, ratio, top_percentage, shuffled) ==
    LET n == Len(items)
        n_top == TopGroupSize(n, top_percentage)
        top_items == SubSeq(shuffled, 1, Min(n_top, n))
        bottom_items == SubSeq(shuffled, n_top + 1, n)
        top_weight_each == <<ratio, 1000 * n_top>>
        bottom_weight_each == IF bottom_items # <<>> THEN <<1000 - ratio, 1000 * Len(bottom_items)>> ELSE <<0, 1>>
    IN [item \in Range(shuffled) |->
          IF item \in Range(bottom_items) THEN bottom_weight_each ELSE top_weight_each]

\* the largest population of which every shuffle is enumerated
MaxPopulation == 4

\* the sizes of the larger populations, shuffled by rotation only
LargePopulations == {6, 100}

\* the list rotated left by k places
Rotated(items, k) == [i \in 1..Len(items) |-> items[((i - 1 + k) % Len(items)) + 1]]

\* the outcomes of random.shuffle that are enumerated
Shuffles(items) ==
    IF Len(items) <= MaxPopulation
    THEN {p \in [1..Len(items) -> Range(items)] : Range(p) = Range(items)}
    ELSE {Rotated(items, k) : k \in {0, 1, Len(items) \div 2}}

InitPareto ==
    /\ NoRun
    /\ fn = "idle"
    /\ \E n \in (0..MaxPopulation) \cup LargePopulations, ratio \in {500, 800}, top_percentage \in {200, 500} :
         args = [items |-> [i \in 1..n |-> i], ratio |-> ratio, top_percentage |-> top_percentage]
    /\ draws = [shuffled |-> <<>>]
    /\ ret = <<>>

\* one call pareto_distribution(items, ratio, top_percentage)
CallPareto ==
    /\ fn = "idle"
    /\ "top_percentage" \in DOMAIN args
    /\ \E shuffled \in Shuffles(args.items) :
         /\ draws' = [shuffled |-> shuffled]
         /\ ret' = pareto_distribution(args.items, args.ratio, args.top_percentage, shuffled)
    /\ fn' = "pareto_distribution"
    /\ UNCHANGED <<args, runVars, entityVars, nameVars, llmVars>>

SpecPareto == InitPareto /\ [][CallPareto]_vars

----------------------------------------------------------------------------
(* src/utils/distributions.py: weighted_choice and pick_from_distribution,  *)
(* both random.choices(items, weights=weights, k=1)[0].  Weights are in per *)
(* mille.                                                                   *)

RECURSIVE CumWeights(_)
\* list(accumulate(weights))
CumWeights(weights) ==
    IF weights = <<>> THEN <<>>
    ELSE LET front == CumWeights(SubSeq(weights, 1, Len(weights) - 1))
         IN Append(front, (IF front = <<>> THEN 0 ELSE front[Len(front)]) + weights[Len(weights)])

RECURSIVE Bisect(_, _, _, _, _)
\* bisect.bisect(a, x, lo, hi) for x = rand * total / 1000, with 0-based
\* positions as in the code: the binary search, whatever the order of a
Bisect(a, rand, total, lo, hi) ==
    IF lo >= hi THEN lo
    ELSE LET mid == (lo + hi) \div 2
         IN IF rand * total < 1000 * a[mid + 1]
            THEN Bisect(a, rand, total, lo, mid)
            ELSE Bisect(a, rand, total, mid + 1, hi)

\* the outcome of a call: an item returned, or the exception raised
Returned(item) == [outcome |-> "returned", item |-> item]
Raised(exception) == [outcome |-> exception, item |-> "none"]

\* random.choices(population, weights=weights, k=1)[0], rand its draw
choices(population, weights, rand) ==
    LET n == Len(population)
        cum_weights == CumWeights(weights)
    IN IF Len(cum_weights) # n THEN Raised("ValueError")
       ELSE IF cum_weights = <<>> THEN Raised("IndexError")
       ELSE LET total == cum_weights[Len(cum_weights)]
            IN IF total <= 0 THEN Raised("ValueError")
               ELSE Returned(population[Bisect(cum_weights, rand, total, 0, n - 1) + 1])

weighted_choice(items, weights, rand) == choices(items, weights, rand)

\* pick_from_distribution: distribution is the dict as its list of
\* (key, value) pairs
pick_from_distribution(distribution, rand) ==
    choices([i \in 1..Len(distribution) |-> distribution[i][1]],
            [i \in 1..Len(distribution) |-> distribution[i][2]], rand)

\* the longest item list enumerated
MaxItems == 3

\* the items and the weights enumerated: negative, zero and positive weights
ChoiceItems == <<"a", "b", "c", "d">>
ChoiceWeights == {-200, 0, 500, 700}

\* the draws of random.random() enumerated
ChoiceDraws == {0, 500, 999}

InitChoice ==
    /\ NoRun
    /\ fn = "idle"
    /\ \E n \in 0..MaxItems : \E weights \in [1..n -> ChoiceWeights] :
         args = [items |-> SubSeq(ChoiceItems, 1, n), weights |-> weights]
    /\ draws = [rand |-> 0]
    /\ ret = Raised("none")

\* one call weighted_choice(items, weights)
CallWeightedChoice ==
    /\ fn = "idle"
    /\ "weights" \in DOMAIN args
    /\ \E rand \in ChoiceDraws :
         /\ draws' = [rand |-> rand]
         /\ ret' = weighted_choice(args.items, args.weights, rand)
    /\ fn' = "weighted_choice"
    /\ UNCHANGED <<args, runVars, entityVars, nameVars, llmVars>>

\* one call pick_from_distribution({item: weight, ...})
CallPickFromDistribution ==
    /\ fn = "idle"
    /\ "weights" \in DOMAIN args
    /\ \E rand \in ChoiceDraws :
         /\ draws' = [rand |-> rand]
         /\ ret' = pick_from_distribution([i \in 1..Len(args.items) |-> <<args.items[i], args.weights[i]>>], rand)
    /\ fn' = "pick_from_distribution"
    /\ UNCHANGED <<args, runVars, entityVars, nameVars, llmVars>>

NextChoice ==
    \/ CallWeightedChoice
    \/ CallPickFromDistribution

SpecChoice == InitChoice /\ [][NextChoice]_vars

----------------------------------------------------------------------------
(* Calls of generate_created_at on enumerated ranges *)

\* how many days the enumerated range ends span
MaxRangeDays == 3

\* the first day of the enumerated range ends: the Saturday before the last
\* day on which a project may be created
RangeBaseDay == (END_DAY - PROJECT_BUFFER_DAYS) - 2

\* the enumerated range ends, inverted ranges included
RangeEnds == {Midnight(d) + h : d \in RangeBaseDay..(RangeBaseDay + MaxRangeDays), h \in {0, 15}}

\* the range generate_projects passes: START_DATE to END_DATE - 30 days
ProjectRange == [start |-> START_DATE, end |-> END_DATE - PROJECT_BUFFER_DAYS * HoursPerDay]

\* the outcome of a call: the datetime returned, or the loop that draws
\* again for ever when no draw of the range falls on Monday to Wednesday
ReturnedAt(t) == [outcome |-> "returned", at |-> t]
DrawsAgainForEver == [outcome |-> "loops", at |-> NoneT]

InitCreated ==
    /\ NoRun
    /\ fn = "idle"
    /\ \/ \E start \in RangeEnds, end \in RangeEnds : args = [start |-> start, end |-> end]
       \/ args = ProjectRange
    /\ draws = [biased |-> FALSE, instant |-> NoneT, hour |-> 0]
    /\ ret = [outcome |-> "none", at |-> NoneT]

\* one call generate_created_at(start, end)
CallCreatedAt ==
    /\ fn = "idle"
    /\ "end" \in DOMAIN args
    /\ \E biased \in BOOLEAN :
         LET accepted == {t \in RandomDatetimesBetween(args.start, args.end) : AcceptedInstant(args.start, args.end, biased, t)}
         IN IF accepted = {}
            THEN /\ draws' = [biased |-> biased, instant |-> NoneT, hour |-> 0]
                 /\ ret' = DrawsAgainForEver
            ELSE \E instant \in accepted, hour \in 9..18 :
                 /\ draws' = [biased |-> biased, instant |-> instant, hour |-> hour]
                 /\ ret' = ReturnedAt(generate_created_at(args.start, args.end, instant, hour))
    /\ fn' = "generate_created_at"
    /\ UNCHANGED <<args, runVars, entityVars, nameVars, llmVars>>

SpecCreated == InitCreated /\ [][CallCreatedAt]_vars

----------------------------------------------------------------------------
(* Calls of generate_modified_at on enumerated inputs *)

\* the hours between created_at and now of the enumerated calls: around one
\* day and around two days, and 36 hours
ModifiedElapsedHours == {0, 1, 23, 24, 25, 36, 47, 48, 49, 72}

\* the hours after created_at at which an enumerated item was completed
ModifiedCompletedAfter == {0, 5, 30}

\* whether generate_modified_at calls random_datetime_between
ModifiedDrawn(created_at, completed_at, now) ==
    completed_at = NoneT /\ (now - created_at) \div HoursPerDay > 1

InitModified ==
    /\ NoRun
    /\ fn = "idle"
    /\ \E elapsed \in ModifiedElapsedHours :
         \E completed_at \in {NoneT} \cup {END_DATE - elapsed + h : h \in ModifiedCompletedAfter} :
            args = [created_at |-> END_DATE - elapsed, completed_at |-> completed_at, now |-> END_DATE]
    /\ draws = [point |-> NoneT]
    /\ ret = NoneT

\* one call generate_modified_at(created_at, completed_at, now)
CallModifiedAt ==
    /\ fn = "idle"
    /\ "completed_at" \in DOMAIN args
    /\ \E point \in (IF ModifiedDrawn(args.created_at, args.completed_at, args.now)
                     THEN RandomDatetimesBetween(args.created_at, args.now) ELSE {NoneT}) :
         /\ draws' = [point |-> point]
         /\ ret' = generate_modified_at(args.created_at, args.completed_at, args.now, point)
    /\ fn' = "generate_modified_at"
    /\ UNCHANGED <<args, runVars, entityVars, nameVars, llmVars>>

SpecModified == InitModified /\ [][CallModifiedAt]_vars

----------------------------------------------------------------------------
(* src/scrapers/names.py: NameGenerator.  A string is the sequence of its   *)
(* characters.                                                              *)


RECURSIVE Decimal(_)
\* str(counter) for counter >= 0
Decimal(n) ==
    LET digit == <<"0", "1", "2", "3", "4", "5", "6", "7", "8", "9">>[(n % 10) + 1]
    IN IF n < 10 THEN <<digit>> ELSE Append(Decimal(n \div 10), digit)

\* the list `formats` of generate_email
EmailFormats(first_name, last_name, domain) ==
    << Lower(first_name) \o <<".">> \o Lower(last_name) \o <<"@">> \o domain,
       <<LowerChar(first_name[1])>> \o Lower(last_name) \o <<"@">> \o domain,
       Lower(first_name) \o <<LowerChar(last_name[1])>> \o <<"@">> \o domain,
       Lower(first_name) \o Lower(last_name) \o <<"@">> \o domain >>

\* f"{base}{counter}@{domain}"
NumberedEmail(first_name, last_name, domain, counter) ==
    Lower(first_name) \o <<".">> \o Lower(last_name) \o Decimal(counter) \o <<"@">> \o domain

RECURSIVE FirstUnusedNumbered(_, _, _, _, _)
\* the `while True` loop of generate_email from `counter` on
FirstUnusedNumbered(first_name, last_name, domain, counter, used) ==
    IF NumberedEmail(first_name, last_name, domain, counter) \notin used
    THEN NumberedEmail(first_name, last_name, domain, counter)
    ELSE FirstUnusedNumbered(first_name, last_name, domain, counter + 1, used)

\* the address generate_email returns when self.used_emails is `used`
generate_email_unchecked(first_name, last_name, domain, used) ==
    EmailFormats(first_name, last_name, domain)[1]
generate_email(first_name, last_name, domain, used) ==
    LET formats == EmailFormats(first_name, last_name, domain)
        unused == {k \in 1..Len(formats) : formats[k] \notin used}
    IN IF unused # {} THEN formats[CHOOSE k \in unused : \A j \in unused : k <= j]
       ELSE FirstUnusedNumbered(first_name, last_name, domain, 1, used)

RECURSIVE EmailsOf(_, _, _)
\* the loop of generate_users over `names`: the addresses, in order
EmailsOf(names, domain, used) ==
    IF names = <<>> THEN <<>>
    ELSE LET email == generate_email(Head(names)[1], Head(names)[2], domain, used)
         IN <<email>> \o EmailsOf(Tail(names), domain, used \cup {email})

\* the most addresses one NameGenerator is asked for
MaxEmails == 4

\* the enumerated (first_name, last_name) pairs: names whose formats
\* coincide, that differ in case only, or that end in a digit
Names ==
    { << <<"A">>, <<"B">> >>, << <<"a">>, <<"B">> >>,
      << <<"a">>, <<"b", "1">> >>, << <<"A", "b">>, <<"B">> >> }

COMPANY_DOMAIN == <<"x", ".", "c">>

InitNames ==
    /\ NoRun
    /\ fn = "idle"
    /\ args = <<>>
    /\ draws = <<>>
    /\ ret = <<>>

\* one call generate_email(first_name, last_name, domain) on the generator
CallGenerateEmail ==
    /\ fn \in {"idle", "generate_email", "generate_users"}
    /\ args = <<>> \/ "first_name" \in DOMAIN args \/ "count" \in DOMAIN args
    /\ Len(name_data) < MaxEmails
    /\ \E name \in Names :
         LET email == generate_email(name[1], name[2], COMPANY_DOMAIN, used_emails)
         IN /\ args' = [first_name |-> name[1], last_name |-> name[2], domain |-> COMPANY_DOMAIN]
            /\ ret' = email
            /\ used_emails' = used_emails \cup {email}
            /\ name_data' = Append(name_data, email)
    /\ fn' = "generate_email"
    /\ UNCHANGED <<draws, runVars, entityVars, llmVars>>

\* one call generate_users(count, domain): names is the list of the set of
\* distinct names generate_names drew
CallGenerateUsers ==
    /\ fn \in {"idle", "generate_email", "generate_users"}
    /\ args = <<>> \/ "first_name" \in DOMAIN args \/ "count" \in DOMAIN args
    /\ \E count \in 1..(MaxEmails - Len(name_data)) :
       \E names \in [1..count -> Names] :
         /\ \A i, j \in 1..count : i # j => names[i] # names[j]
         /\ LET emails == EmailsOf(names, COMPANY_DOMAIN, used_emails)
            IN /\ args' = [count |-> count, domain |-> COMPANY_DOMAIN]
               /\ draws' = names
               /\ ret' = emails
               /\ used_emails' = used_emails \cup Range(emails)
               /\ name_data' = name_data \o emails
    /\ fn' = "generate_users"
    /\ UNCHANGED <<runVars, entityVars, llmVars>>

NextNames ==
    \/ CallGenerateEmail
    \/ CallGenerateUsers

SpecNames == InitNames /\ [][NextNames]_vars

----------------------------------------------------------------------------
(* src/scrapers/names.py: NameGenerator.generate_names, on name tables      *)
(* scaled down from the 141 first names and 101 last names of the code      *)

FIRST_NAMES == << <<"A">>, <<"A", "b">> >>
LAST_NAMES == << <<"B">>, <<"b", "1">>, <<"C">> >>

\* the (first, last) tuples generate_name can return
NamePairs == {<<first, last>> : first \in Range(FIRST_NAMES), last \in Range(LAST_NAMES)}

\* the outcome of a call: list(names), or the loop that draws again for ever
\* because the set `names` cannot reach `count` elements
ReturnedNames(names) == [outcome |-> "returned", names |-> names]
DrawsNamesForEver == [outcome |-> "loops", names |-> <<>>]

\* generate_names: `while len(names) < count` adds draws of generate_name to
\* a set; the outcomes are the lists of `count` distinct tuples, in any order
generate_names(count) ==
    IF count <= 0 THEN {ReturnedNames(<<>>)}
    ELSE IF count > Cardinality(NamePairs) THEN {DrawsNamesForEver}
    ELSE {ReturnedNames(names) : names \in {l \in [1..count -> NamePairs] : \A i, j \in 1..count : i # j => l[i] # l[j]}}

\* the largest count enumerated
MaxCount == 7

InitGenerateNames ==
    /\ NoRun
    /\ fn = "idle"
    /\ \E count \in 0..MaxCount : args = [count |-> count]
    /\ draws = <<>>
    /\ ret = ReturnedNames(<<>>)

\* one call generate_names(count)
CallGenerateNames ==
    /\ fn = "idle"
    /\ DOMAIN args = {"count"}
    /\ ret' \in generate_names(args.count)
    /\ fn' = "generate_names"
    /\ UNCHANGED <<args, draws, runVars, entityVars, nameVars, llmVars>>

SpecGenerateNames == InitGenerateNames /\ [][CallGenerateNames]_vars

----------------------------------------------------------------------------
(* src/utils/llm.py: LLMGenerator.  A text is the sequence of its           *)
(* characters.                                                              *)

\* the strings generate returns without a text of the service
LLM_PLACEHOLDER ==
    <<"[", "L", "L", "M", "-", "G", "E", "N", "E", "R", "A", "T", "E", "D", "-", "C", "O", "N", "T", "E", "N", "T", "]">>
LLM_ERROR == <<"[", "L", "L", "M", "-", "E", "R", "R", "O", "R", "]">>

\* the outcome of self.client.messages.create: an exception, or a response
\* with its usage and the texts of its content blocks
CreateRaised == [raised |-> TRUE, input_tokens |-> 0, output_tokens |-> 0, content |-> <<>>]
CreateReturned(input_tokens, output_tokens, content) ==
    [raised |-> FALSE, input_tokens |-> input_tokens, output_tokens |-> output_tokens, content |-> content]

\* the state of the generator and the value returned after one call of
\* generate: the counters are updated as soon as the response is there, the
\* text is extracted after that, and every exception inside `try` ends in
\* the error marker
generate_counting_attempts(has_client, count, tokens, response) ==
    IF ~has_client THEN [call_count |-> count, total_tokens |-> tokens, text |-> LLM_PLACEHOLDER]
    ELSE IF response.raised THEN [call_count |-> count + 1, total_tokens |-> tokens, text |-> LLM_ERROR]
    ELSE [call_count |-> count + 1,
          total_tokens |-> tokens + response.input_tokens + response.output_tokens,
          text |-> IF response.content = <<>> THEN LLM_ERROR ELSE Strip(response.content[1])]
generate(has_client, count, tokens, response) ==
    IF ~has_client THEN [call_count |-> count, total_tokens |-> tokens, text |-> LLM_PLACEHOLDER]
    ELSE IF response.raised THEN [call_count |-> count, total_tokens |-> tokens, text |-> LLM_ERROR]
    ELSE [call_count |-> count + 1,
          total_tokens |-> tokens + response.input_tokens + response.output_tokens,
          text |-> IF response.content = <<>> THEN LLM_ERROR ELSE Strip(response.content[1])]

\* get_stats
get_stats == [call_count |-> call_count, total_tokens |-> total_tokens]

\* the most calls of generate on one generator
MaxCalls == 3

\* the token counts and the contents of the enumerated responses
TokenCounts == {<<0, 1>>, <<12, 30>>, <<100, 250>>}
Contents == { <<>>, << <<" ", "o", "k", " ">> >>, << <<"a">>, <<"b">> >> }

Responses ==
    {CreateRaised} \cup {CreateReturned(u[1], u[2], c) : u \in TokenCounts, c \in Contents}

\* LLMGenerator(): the client exists when an API key is configured
InitLLM ==
    /\ NoStages
    /\ fn = "idle"
    /\ args = <<>>
    /\ draws = <<>>
    /\ ret = <<>>
    /\ client \in BOOLEAN
    /\ call_count = 0
    /\ total_tokens = 0
    /\ generate_calls = <<>>

\* one call generate(prompt); without a client the service is not called
CallGenerate ==
    /\ fn \in {"idle", "generate"}
    /\ args = <<>>
    /\ Len(generate_calls) < MaxCalls
    /\ \E response \in (IF client THEN Responses ELSE {CreateRaised}) :
         LET after == generate(client, call_count, total_tokens, response)
         IN /\ call_count' = after.call_count
            /\ total_tokens' = after.total_tokens
            /\ ret' = after.text
            /\ draws' = response
            /\ generate_calls' = Append(generate_calls, IF ~client THEN "disabled" ELSE IF response.raised THEN "failed" ELSE "successful")
    /\ fn' = "generate"
    /\ UNCHANGED <<args, client, runVars, entityVars, nameVars>>

SpecLLM == InitLLM /\ [][CallGenerate]_vars

----------------------------------------------------------------------------
(* Claims about the run *)

\* the team_type of the team with the given team_id
TeamTypeOf(team_id) ==
    (CHOOSE t \in {teams[k] : k \in 1..Len(teams)} : t.team_id = team_id).team_type

\* C1: every task with a non-null parent_task_id references a task of the
\* same project whose own parent_task_id is null (hierarchy depth at most 1).
C1_SubtasksOfTopLevelOnly ==
    \A j \in 1..Len(tasks) :
        tasks[j].parent_task_id # 0 =>
            \E k \in 1..Len(tasks) :
                /\ tasks[k].task_id = tasks[j].parent_task_id
                /\ tasks[k].project_id = tasks[j].project_id
                /\ tasks[k].parent_task_id = 0

\* C2: a complete work item has completed_at and completed_by set, an
\* incomplete one has both null.
C2_CompletionFieldsFollowStatus ==
    \A j \in 1..Len(tasks) :
        /\ tasks[j].status = "complete" =>
              (tasks[j].completed_at # NoneT /\ tasks[j].completed_by # 0)
        /\ tasks[j].status = "incomplete" =>
              (tasks[j].completed_at = NoneT /\ tasks[j].completed_by = 0)

\* C3: every work item has created_at <= modified_at.
C3_CreatedNotAfterModified ==
    \A j \in 1..Len(tasks) : tasks[j].created_at <= tasks[j].modified_at

\* C4: no user_id appears in more than one membership record.
C4_OneMembershipPerUser ==
    \A i, j \in 1..Len(team_memberships) :
        i # j => team_memberships[i].user_id # team_memberships[j].user_id

\* two teams of one department both selected members from its pool
C4_TwoTeamsOfOneDepartment ==
    /\ pc = "generate_custom_fields"
    /\ \E i, j \in 1..Len(team_memberships) :
          /\ team_memberships[i].team_id # team_memberships[j].team_id
          /\ TeamTypeOf(team_memberships[i].team_id) = TeamTypeOf(team_memberships[j].team_id)

\* the tasks whose parent is task_id, and the comments on task_id
ChildrenOf(task_id) == {j \in 1..Len(tasks) : tasks[j].parent_task_id = task_id}
CommentsOn(task_id) == {k \in 1..Len(comments) : comments[k] = task_id}

\* C6: at the end of a run every task's num_subtasks is the number of tasks
\* whose parent it is and its num_comments the number of comments on it, and
\* a count is written only once the last child of that kind exists: as soon
\* as any count is set, and from then on, every count equals the number of
\* children present.
C6_CountsBackfilledAfterChildren ==
    /\ (pc = "complete" \/ \E j \in 1..Len(tasks) : tasks[j].num_subtasks # 0) =>
          \A j \in 1..Len(tasks) : tasks[j].num_subtasks = Cardinality(ChildrenOf(tasks[j].task_id))
    /\ (pc = "complete" \/ \E j \in 1..Len(tasks) : tasks[j].num_comments # 0) =>
          \A j \in 1..Len(tasks) : tasks[j].num_comments = Cardinality(CommentsOn(tasks[j].task_id))

\* a finished run in which a task has subtasks and a task has comments
C6_RunWithSubtasksAndComments ==
    /\ pc = "complete"
    /\ \E j \in 1..Len(tasks) : tasks[j].num_subtasks >= 1 /\ ChildrenOf(tasks[j].task_id) # {}
    /\ \E j \in 1..Len(tasks) : tasks[j].num_comments >= 1 /\ tasks[j].parent_task_id # 0

\* the order of the stages the claim C7 states
StageOrder ==
    << "generate_organization", "generate_teams", "generate_users",
       "generate_team_memberships", "generate_custom_fields", "generate_tags",
       "generate_projects", "generate_sections", "generate_tasks",
       "generate_subtasks", "generate_comments",
       "generate_custom_field_values", "generate_task_tags",
       "generate_attachments" >>

\* the stages whose collections a stage reads, and the tables those stages
\* insert
StageReads(stage) ==
    CASE stage = "generate_organization" -> {}
      [] stage \in {"generate_teams", "generate_users", "generate_custom_fields", "generate_tags"} -> {"generate_organization"}
      [] stage = "generate_team_memberships" -> {"generate_users", "generate_teams"}
      [] stage = "generate_projects" -> {"generate_organization", "generate_teams", "generate_team_memberships"}
      [] stage = "generate_sections" -> {"generate_projects"}
      [] stage = "generate_tasks" -> {"generate_projects", "generate_sections", "generate_team_memberships"}
      [] stage \in {"generate_subtasks", "generate_comments", "generate_attachments"} -> {"generate_tasks"}
      [] stage = "generate_custom_field_values" -> {"generate_custom_fields", "generate_tasks"}
      [] stage = "generate_task_tags" -> {"generate_tags", "generate_tasks"}
      [] OTHER -> {}
StageTables(stage) ==
    CASE stage = "generate_organization" -> {"organizations"}
      [] stage = "generate_teams" -> {"teams"}
      [] stage = "generate_users" -> {"users"}
      [] stage = "generate_team_memberships" -> {"team_memberships"}
      [] stage = "generate_custom_fields" -> {"custom_field_definitions", "custom_field_enum_options"}
      [] stage = "generate_tags" -> {"tags"}
      [] stage = "generate_projects" -> {"projects"}
      [] stage = "generate_sections" -> {"sections"}
      [] stage = "generate_tasks" -> {"tasks"}
      [] OTHER -> {}

\* C7: generate_all executes every stage exactly once in the stated order
\* (the stages that returned are always a prefix of it, and all of it when
\* the run is complete), and a stage runs only when every stage whose
\* collections it reads has returned and its tables have been inserted.
C7_StagesOnceInDependencyOrder ==
    /\ Len(finished) <= Len(StageOrder)
    /\ finished = SubSeq(StageOrder, 1, Len(finished))
    /\ pc = "complete" => finished = StageOrder
    /\ \A r \in StageReads(pc) :
          /\ \E k \in 1..Len(finished) : finished[k] = r
          /\ \A table \in StageTables(r) : \E k \in 1..Len(inserted) : inserted[k] = table

\* a complete run that generated tasks, subtasks and comments
C7_CompleteRun ==
    /\ pc = "complete"
    /\ Len(finished) = 14
    /\ \E j \in 1..Len(tasks) : tasks[j].parent_task_id # 0
    /\ comments # <<>>

\* C8: when a stage raises, the run ends failed with exit status 1 and the
\* stage does not count as finished; after a raise nothing happens any more:
\* no later stage runs, no insert is issued, nothing is retried or resumed;
\* a complete run is one in which nothing raised.
C8_RaiseAbortsRun ==
    [][ /\ raised = "none"
        /\ raised' # "none" => (pc' = "failed" /\ exit_status' = 1 /\ finished' = finished)
        /\ pc' = "complete" => (raised' = "none" /\ exit_status' = 0) ]_vars

\* a run that failed in a stage after earlier stages had inserted their rows
C8_FailedMidRun ==
    /\ pc = "failed"
    /\ raised = "generate_comments"
    /\ exit_status = 1
    /\ Len(finished) = 10
    /\ Len(inserted) = 11
    /\ tasks # <<>>

----------------------------------------------------------------------------
(* Claims about the temporal engine *)

\* C5: every non-null date generate_due_date returns is <= now.date(), for
\* every horizon end weekday, bucket, clamp draw and weekend-avoidance outcome,
\* the default return included.
C5_DueDateWithinHorizon ==
    (fn = "generate_due_date" /\ ret # NoneT) => ret <= DateOf(args.now)

\* C9: every value generate_completion_time returns is >= created_at.
C9_CompletionNotBeforeCreation ==
    fn = "generate_completion_time" => ret >= args.created_at

\* C10: every value generate_completion_time returns is <= now.
C10_CompletionWithinHorizon ==
    fn = "generate_completion_time" => ret <= args.now

\* the buckets of a distribution whose cumulative probability is >= rand
\* while that of every earlier bucket is below it
FirstBucketsAtOrAbove(distribution, rand) ==
    {k \in 1..Len(distribution) :
        /\ rand <= Cumulative(distribution, k)
        /\ \A j \in 1..(k - 1) : Cumulative(distribution, j) < rand}

\* the draws 0.10, 0.50 and 0.999 over the five-bucket distribution select
\* its first, second and fifth bucket, and the date returned (when it was not
\* clamped and the weekend was not avoided) lies in that bucket's range
C11_Examples ==
    (fn = "generate_due_date" /\ args.distribution = DUE_DATE_DISTRIBUTION) =>
        LET offset == ret - DateOf(args.created_at)
            plain == draws.clamp = 0 /\ draws.skip
        IN /\ draws.rand = 100 => (DueBucket = "within_1_week" /\ (plain => offset \in 1..7))
           /\ draws.rand = 500 => (DueBucket = "within_1_month" /\ (plain => offset \in 8..30))
           /\ draws.rand = 999 => (DueBucket = "overdue" /\ (plain => -offset \in 1..30))

\* C11: the bucket selected is the first bucket whose cumulative
\* probability is >= the draw, and the last bucket of the distribution when
\* the total mass is below the draw; the draws 0.10, 0.50 and 0.999 select
\* the first, second and fifth of the five buckets.
C11_FirstBucketElseLast ==
    fn = "generate_due_date" =>
        LET first == FirstBucketsAtOrAbove(args.distribution, draws.rand)
        IN /\ first # {} => \E k \in first : DueBucket = args.distribution[k][1]
           /\ first = {} => DueBucket = args.distribution[Len(args.distribution)][1]
           /\ C11_Examples

\* the first k items of the shuffled list of a finished pareto_distribution
\* call, and the others
ParetoTop(k) == {draws.shuffled[i] : i \in 1..Min(k, Len(draws.shuffled))}
ParetoRest(k) == Range(args.items) \ ParetoTop(k)

\* a finished call gave the k-item top group ratio / k each and every
\* remaining item (1 - ratio) / (number of remaining items), one weight per
\* item
ParetoSplitAt(k) ==
    /\ DOMAIN ret = Range(args.items)
    /\ Cardinality(ParetoTop(k)) = k
    /\ \A item \in ParetoTop(k) : EqFrac(ret[item], <<args.ratio, 1000 * k>>)
    /\ \A item \in ParetoRest(k) :
          EqFrac(ret[item], <<1000 - args.ratio, 1000 * Cardinality(ParetoRest(k))>>)

\* for 100 items, top_percentage 0.2 and ratio 0.8: 20 items totalling 0.8
\* and 80 items totalling 0.2
C12_Example ==
    (Len(args.items) = 100 /\ args.top_percentage = 200 /\ args.ratio = 800) =>
        /\ Cardinality(ParetoTop(20)) = 20
        /\ EqFrac(SumWeights(ret, SubSeq(draws.shuffled, 1, 20)), <<8, 10>>)
        /\ Cardinality(ParetoRest(20)) = 80
        /\ EqFrac(SumWeights(ret, SubSeq(draws.shuffled, 21, 100)), <<2, 10>>)

\* C12 as stated: for n >= 1 items the top group has ceil(n * top_fraction)
\* items of weight top_mass / (its size) each, every remaining item has
\* weight (1 - top_mass) / (number remaining), every item has one weight and
\* the weights total 1; 100 items at 0.2 / 0.8 give 20 items totalling 0.8
\* and 80 totalling 0.2.
C12_TopGroupIsCeiling ==
    (fn = "pareto_distribution" /\ Len(args.items) >= 1) =>
        /\ ParetoSplitAt((Len(args.items) * args.top_percentage + 999) \div 1000)
        /\ EqFrac(SumWeights(ret, args.items), <<1, 1>>)
        /\ C12_Example

\* C12 as amended: for n >= 1 items the top group has
\* max(1, floor(n * top_fraction)) items of weight top_mass / (its size)
\* each, every remaining item has weight (1 - top_mass) / (number
\* remaining), every item has one weight, and the weights total 1 when an
\* item remains outside the top group and top_mass when none does; 100 items
\* at 0.2 / 0.8 give 20 items totalling 0.8 and 80 totalling 0.2.
C12_TopGroupIsFloorAtLeastOne ==
    (fn = "pareto_distribution" /\ Len(args.items) >= 1) =>
        LET n == Len(args.items)
            floor == (n * args.top_percentage) \div 1000
            k == IF floor >= 1 THEN floor ELSE 1
        IN /\ ParetoSplitAt(k)
           /\ EqFrac(SumWeights(ret, args.items), IF k < n THEN <<1, 1>> ELSE <<args.ratio, 1000>>)
           /\ C12_Example

\* a call on six items at the default 0.2 / 0.8, where the floor and the
\* ceiling of n * top_fraction differ
C12_SixItemsOneOnTop ==
    /\ fn = "pareto_distribution"
    /\ Len(args.items) = 6
    /\ args.top_percentage = 200
    /\ args.ratio = 800
    /\ Cardinality({item \in DOMAIN ret : EqFrac(ret[item], <<8, 10>>)}) = 1
    /\ Cardinality({item \in DOMAIN ret : EqFrac(ret[item], <<2, 50>>)}) = 5

\* C13: a weighted pick called with an empty item list or with a negative
\* weight ends in the error InvalidDistribution and returns no item.
C13_MalformedRaisesInvalidDistribution ==
    (/\ fn \in {"weighted_choice", "pick_from_distribution"}
     /\ (args.items = <<>> \/ \E i \in 1..Len(args.weights) : args.weights[i] < 0)) =>
        (ret.outcome = "InvalidDistribution" /\ ret.item = "none")

\* C14: generate_created_at called with range_end < range_start fails with
\* the error InvalidRange and returns no timestamp.
C14_InvertedRangeRaisesInvalidRange ==
    (fn = "generate_created_at" /\ args.end < args.start) =>
        (ret.outcome = "InvalidRange" /\ ret.at = NoneT)

\* whether the user is a member of the team that owns the project
MemberOfProjectTeam(user_id, project_id) ==
    \E p \in 1..Len(projects), m \in 1..Len(team_memberships) :
        /\ projects[p].project_id = project_id
        /\ team_memberships[m].team_id = projects[p].team_id
        /\ team_memberships[m].user_id = user_id

\* C15: for every top-level task, created_by is a member of the team of the
\* task's project, assignee_id is null or a member of that team, and
\* completed_by, when set, is the assignee or the creator.
C15_TaskPeopleAreTeamMembers ==
    \A j \in 1..Len(tasks) :
        tasks[j].parent_task_id = 0 =>
            /\ MemberOfProjectTeam(tasks[j].created_by, tasks[j].project_id)
            /\ (tasks[j].assignee_id = 0 \/ MemberOfProjectTeam(tasks[j].assignee_id, tasks[j].project_id))
            /\ (tasks[j].completed_by # 0 =>
                   tasks[j].completed_by \in ({tasks[j].assignee_id, tasks[j].created_by} \ {0}))

\* the tasks of the projects of two teams are inserted: an unassigned
\* complete task completed by its creator, who is no member of the other
\* project's team, and a task of that other project assigned to a member
\* other than its creator; a user of the organization is in no team
C15_TasksOfTwoTeams ==
    /\ pc = "generate_subtasks"
    /\ \E j, k \in 1..Len(tasks) :
          /\ tasks[j].project_id # tasks[k].project_id
          /\ ~MemberOfProjectTeam(tasks[j].created_by, tasks[k].project_id)
          /\ tasks[j].assignee_id = 0
          /\ tasks[j].status = "complete"
          /\ tasks[j].completed_by = tasks[j].created_by
          /\ tasks[k].assignee_id \notin {0, tasks[k].created_by}
          /\ ~MemberOfProjectTeam(tasks[k].assignee_id, tasks[j].project_id)
    /\ \E i \in 1..Len(users) : \A m \in 1..Len(team_memberships) : team_memberships[m].user_id # users[i].user_id

\* C16: every project's created_at, the value generate_created_at returns
\* for the range generate_projects passes, lies in
\* [START_DATE, END_DATE - 30 days], for every draw of the closed range and
\* every forced hour of the day.
C16_ProjectCreatedBeforeLastThirtyDays ==
    (fn = "generate_created_at" /\ args = ProjectRange /\ ret.outcome = "returned") =>
        /\ START_DATE <= ret.at
        /\ ret.at <= END_DATE - PROJECT_BUFFER_DAYS * HoursPerDay

\* the memberships of a team, and those flagged as its lead
MembershipsOf(team_id) == {m \in 1..Len(team_memberships) : team_memberships[m].team_id = team_id}
LeadsOf(team_id) == {m \in MembershipsOf(team_id) : team_memberships[m].is_team_lead}

\* C17: every team that has a membership has exactly one membership with
\* is_team_lead = true, a membership of that team.
C17_OneLeadPerStaffedTeam ==
    \A k \in 1..Len(teams) :
        MembershipsOf(teams[k].team_id) # {} => Cardinality(LeadsOf(teams[k].team_id)) = 1

\* generate_team_memberships returned with a team of two members whose lead
\* is not the first of them, and with a team that has no member
C17_TwoMemberTeamWithLead ==
    /\ pc = "generate_custom_fields"
    /\ \E k \in 1..Len(teams) : \E m, l \in MembershipsOf(teams[k].team_id) :
          /\ m < l
          /\ ~team_memberships[m].is_team_lead
          /\ team_memberships[l].is_team_lead
    /\ \E k \in 1..Len(teams) : MembershipsOf(teams[k].team_id) = {}

\* the projects of a team
ProjectsOf(team_id) == {p \in 1..Len(projects) : projects[p].team_id = team_id}

\* C18: after generate_projects every team produced by generate_teams owns
\* a number of projects within the configured range (3 to 5 in config, the
\* scaled PROJECTS_PER_TEAM here).
C18_EveryTeamOwnsProjects ==
    "generate_projects" \in Range(finished) =>
        \A k \in 1..Len(teams) :
            /\ Cardinality(ProjectsOf(teams[k].team_id)) >= PROJECTS_PER_TEAM[1]
            /\ Cardinality(ProjectsOf(teams[k].team_id)) <= PROJECTS_PER_TEAM[2]

\* the k-th address generate_email tries: the four formats, then the
\* numeric suffixes 1, 2, ...
EmailCandidate(first_name, last_name, domain, k) ==
    IF k <= 4 THEN EmailFormats(first_name, last_name, domain)[k]
    ELSE NumberedEmail(first_name, last_name, domain, k - 4)

\* C19: within one NameGenerator every address returned differs from every
\* address returned earlier and is recorded in used_emails (so the addresses
\* of a generate_users batch are pairwise distinct), and a call of
\* generate_email returns the first address -- of the four formats in order,
\* then of the numeric suffixes 1, 2, ... -- that was not in used_emails.
C19_EmailsDistinctAndRecorded ==
    /\ [](/\ \A i, j \in 1..Len(name_data) : i # j => name_data[i] # name_data[j]
          /\ Range(name_data) \subseteq used_emails)
    /\ [][ fn' = "generate_email" =>
              /\ ret' \notin used_emails
              /\ ret' \in used_emails'
              /\ used_emails \subseteq used_emails'
              /\ \E k \in 1..(4 + MaxEmails) :
                    /\ ret' = EmailCandidate(args'.first_name, args'.last_name, args'.domain, k)
                    /\ \A j \in 1..(k - 1) :
                          EmailCandidate(args'.first_name, args'.last_name, args'.domain, j) \in used_emails ]_vars

\* a call went past the four formats and past a numeric suffix that was
\* already taken
C19_SecondSuffixReturned ==
    /\ fn = "generate_email"
    /\ ret = NumberedEmail(args.first_name, args.last_name, args.domain, 2)
    /\ NumberedEmail(args.first_name, args.last_name, args.domain, 1) \in Range(name_data)

\* C20: get_company_data(limit) with limit >= 1 returns at least one
\* {name, domain} record, when the fetch raises and when it yields no usable
\* company entry, so that companies[0] exists.
C20_CompanyProviderNeverEmpty ==
    (fn = "get_company_data" /\ args.limit >= 1) =>
        /\ Len(ret) >= 1
        /\ \A i \in 1..Len(ret) : DOMAIN ret[i] = {"name", "domain"}

\* the calls of generate so far that went the given way
CallsThatWent(way) == {k \in 1..Len(generate_calls) : generate_calls[k] = way}

\* C21: generate never raises (every call returns a string): without a
\* client it returns the placeholder and leaves call_count and total_tokens
\* unchanged, on a failed service call it returns the error marker with both
\* counters unchanged, on a successful service call call_count grows by 1 and
\* total_tokens by the call's input and output tokens; the counters never
\* decrease and call_count is always the number of successful service calls.
C21_CountersFollowSuccessfulCalls ==
    /\ [](/\ call_count = Cardinality(CallsThatWent("successful"))
          /\ get_stats = [call_count |-> call_count, total_tokens |-> total_tokens])
    /\ [][ fn' = "generate" =>
              LET went == generate_calls'[Len(generate_calls')] IN
              /\ Len(generate_calls') = Len(generate_calls) + 1
              /\ ret' \in {LLM_PLACEHOLDER, LLM_ERROR} \cup {Strip(c) : c \in Range(draws'.content)}
              /\ call_count' >= call_count /\ total_tokens' >= total_tokens
              /\ went = "disabled" <=> ~client
              /\ went = "disabled" =>
                    (ret' = LLM_PLACEHOLDER /\ call_count' = call_count /\ total_tokens' = total_tokens)
              /\ went = "failed" =>
                    (ret' = LLM_ERROR /\ call_count' = call_count /\ total_tokens' = total_tokens)
              /\ went = "successful" =>
                    /\ call_count' = call_count + 1
                    /\ total_tokens' = total_tokens + draws'.input_tokens + draws'.output_tokens ]_vars

\* three calls on a generator with a client: one failed, two successful
C21_FailedAmongSuccessfulCalls ==
    /\ fn = "generate"
    /\ client
    /\ Len(generate_calls) = 3
    /\ generate_calls[2] = "failed"
    /\ call_count = 2
    /\ total_tokens = 43

\* C23: whenever generate_due_date selects the overdue bucket, the date it
\* returns is strictly before the creation date, for every creation weekday,
\* every offset of 1 to 30 days and every weekend-avoidance outcome.
C23_OverdueBeforeCreation ==
    (fn = "generate_due_date" /\ DueBucket = "overdue") => ret < DateOf(args.created_at)

\* C24: generate_modified_at returns completed_at when the item is
\* completed; for an incomplete item it returns a point drawn in
\* [created_at, now] whenever more than one day (24 hours) has elapsed between
\* created_at and now, 36 hours for example, and returns created_at itself,
\* without a draw, only when at most one day has elapsed.
C24_ModifiedDrawnAfterOneDay ==
    fn = "generate_modified_at" =>
        LET elapsed == args.now - args.created_at IN
        /\ args.completed_at # NoneT => ret = args.completed_at
        /\ (args.completed_at = NoneT /\ elapsed > HoursPerDay) =>
              (draws.point # NoneT /\ ret = draws.point /\ args.created_at <= ret /\ ret <= args.now)
        /\ (args.completed_at = NoneT /\ draws.point = NoneT) =>
              (ret = args.created_at /\ elapsed <= HoursPerDay)

\* C25: every subtask's created_at falls within its parent's lifetime: it is
\* not before the parent's created_at, not after the parent's completed_at
\* when the parent is complete, and in every case not after the horizon end.
C25_SubtaskWithinParentLifetime ==
    \A j, k \in 1..Len(tasks) :
        tasks[j].parent_task_id = tasks[k].task_id =>
            /\ tasks[k].created_at <= tasks[j].created_at
            /\ tasks[k].status = "complete" => tasks[j].created_at <= tasks[k].completed_at
            /\ tasks[j].created_at <= END_DATE

\* C26: for every start <= end, the datetime generate_created_at(start, end)
\* returns, after the time of day was forced into business hours, lies in
\* [start, end] (so that a top-level task, whose range is
\* [project.created_at, END_DATE], is created within it).
C26_CreatedAtWithinRange ==
    (fn = "generate_created_at" /\ args.start <= args.end /\ ret.outcome = "returned") =>
        (args.start <= ret.at /\ ret.at <= args.end)

\* C27: when the run is complete, every row of the tasks table carries the
\* backfilled aggregates: its num_subtasks is the number of rows of the table
\* whose parent_task_id is that task, and its num_comments the number of rows
\* of the comments table for that task.
C27_PersistedCountsAgree ==
    pc = "complete" =>
        \A j \in 1..Len(db_tasks) :
            /\ db_tasks[j].num_subtasks =
                  Cardinality({k \in 1..Len(db_tasks) : db_tasks[k].parent_task_id = db_tasks[j].task_id})
            /\ db_tasks[j].num_comments = Cardinality(CommentsOn(db_tasks[j].task_id))

\* the top-level tasks and the subtasks of self.tasks
TopLevelTasks == {j \in 1..Len(tasks) : tasks[j].parent_task_id = 0}
SubtasksCreated == {j \in 1..Len(tasks) : tasks[j].parent_task_id # 0}

\* C28: the loop of generate_subtasks visits only the tasks present when the
\* stage starts, the top-level tasks, although it appends subtasks to the
\* list it iterates over (so it ends for every sequence of draws), and the
\* number of subtasks created is at most SUBTASKS_PER_TASK's maximum (5 in
\* config) times the number of top-level tasks.
C28_SubtaskLoopVisitsInitialTasks ==
    /\ pc = "generate_subtasks" => loop.i <= Cardinality(TopLevelTasks)
    /\ Cardinality(SubtasksCreated) <= SUBTASKS_PER_TASK[2] * Cardinality(TopLevelTasks)

\* C29: generate_created_at(start, end) with weekday bias returns for every
\* range with start <= end, when the bias draw succeeded as well, ranges
\* shorter than a week without a Monday, Tuesday or Wednesday included.
C29_CreatedAtTerminates ==
    (fn = "generate_created_at" /\ args.start <= args.end) => ret.outcome = "returned"

\* C30: generate_names(count) returns for every count >= 0, and what it
\* returns are exactly count pairwise distinct (first, last) tuples, when
\* count is larger than the number of tuples the tables can form as well.
C30_GenerateNamesReturnsCount ==
    (fn = "generate_names" /\ args.count >= 0) =>
        /\ ret.outcome = "returned"
        /\ Len(ret.names) = args.count
        /\ \A i, j \in 1..Len(ret.names) : i # j => ret.names[i] # ret.names[j]

====
